---------------------------- MODULE Spec2Model ----------------------------
(***************************************************************************)
(* Model of the git directive of caddy-git (src/setup.go): the directive   *)
(* parser `parse`, the URL normalizers `sanitizeHTTP` and `sanitizeGit`,   *)
(* and `Setup`, which plans one startup action per repository and          *)
(* registers them once per server block.                                   *)
(*                                                                         *)
(* Strings are sequences of one-character strings, so that the prefix,     *)
(* suffix, index and slice operations of the code are computed and not     *)
(* assumed.  Go indexes are 0-based; Index and Slice below keep Go's       *)
(* convention.                                                             *)
(***************************************************************************)
EXTENDS Integers, Sequences, FiniteSets, TLC

VARIABLES
    blocks,        \* the `git` directive blocks of the server block's configuration
    goos,          \* runtime.GOOS
    nctx,          \* number of addresses (contexts) sharing the server block
    pc,            \* pc[c]: position of Setup evaluated for context c
    idx,           \* idx[c]: number of blocks the parse of context c has consumed (c.Next)
    git,           \* git[c]: the Git slice built by parse; git[c][i] is the object <<c, i>>
    err,           \* err[c]: the error Setup returned for context c
    startupFuncs,  \* startupFuncs[c]: Setup's local list of startup closures
    hookRepos,     \* hookRepos[c]: Setup's local list of webhook repositories
    onceDone,      \* the server block's sync.Once of this directive has fired
    cStartup,      \* cStartup[c]: c.Startup, the startup list of context c's server config
    handler,       \* handler[c]: the middleware Setup returned for context c
    initCalls,     \* number of Init() calls made so far
    prepared,      \* descriptor objects on which Prepare() has been called
    ran,           \* number of registered startup functions the host has run
    aborted,       \* a startup function returned an error: the host stopped
    pullCount,     \* pullCount[r]: number of Pull calls on descriptor object r
    startCount,    \* startCount[r]: number of Start calls on descriptor object r
    nparts,        \* normalizer harness: the pieces of the raw URL under test
    nmode,         \* normalizer harness: "http" (sanitizeHTTP) or "git" (sanitizeGit)
    npc,           \* normalizer harness: "idle", "raw", "once", "twice"
    nout1,         \* normalizer harness: result of the normalizer on the raw URL
    nout2          \* normalizer harness: result of the normalizer on its own output

mainVars == <<blocks, goos, nctx, pc, idx, git, err, startupFuncs, hookRepos, onceDone,
              cStartup, handler, initCalls, prepared, ran, aborted, pullCount, startCount>>
normVars == <<nparts, nmode, npc, nout1, nout2>>
vars == <<blocks, goos, nctx, pc, idx, git, err, startupFuncs, hookRepos, onceDone,
          cStartup, handler, initCalls, prepared, ran, aborted, pullCount, startCount,
          nparts, nmode, npc, nout1, nout2>>

-----------------------------------------------------------------------------
(* Bounds of the model. *)
MaxBlocks == 2
MaxCtx == 2

-----------------------------------------------------------------------------
(* String constants, as character sequences. *)
S_empty == <<>>
S_repo == <<"r", "e", "p", "o">>
S_path == <<"p", "a", "t", "h">>
S_branch == <<"b", "r", "a", "n", "c", "h">>
S_key == <<"k", "e", "y">>
S_interval == <<"i", "n", "t", "e", "r", "v", "a", "l">>
S_hook == <<"h", "o", "o", "k">>
S_hook_type == <<"h", "o", "o", "k", "_", "t", "y", "p", "e">>
S_then == <<"t", "h", "e", "n">>
S_then_long == <<"t", "h", "e", "n", "_", "l", "o", "n", "g">>
S_bogus == <<"b", "o", "g", "u", "s">>
S_master == <<"m", "a", "s", "t", "e", "r">>
S_dev == <<"d", "e", "v">>
S_gitAt == <<"g", "i", "t", "@">>
S_gitAtAColon == <<"g", "i", "t", "@", "a", ":">>
S_https == <<"h", "t", "t", "p", "s", ":", "/", "/">>
S_httpScheme == <<"h", "t", "t", "p", ":", "/", "/">>
S_http == <<"h", "t", "t", "p">>
S_dotGit == <<".", "g", "i", "t">>
S_bitbucket == <<"b", "i", "t", "b", "u", "c", "k", "e", "t", ".", "o", "r", "g">>
S_github == <<"g", "i", "t", "h", "u", "b", ".", "c", "o", "m">>
S_hostA == <<"a">>
S_user == <<"u", "s", "e", "r">>
S_acctRepo == <<"a", "c", "c", "t", "/", "r", "e", "p", "o">>
S_acctRepoGit == <<"a", "c", "c", "t", "/", "r", "e", "p", "o", ".", "g", "i", "t">>
S_acct == <<"a", "c", "c", "t">>
S_root == <<"/", "s", "r", "v">>
S_site == <<"s", "i", "t", "e">>
S_siteSlash == <<"s", "i", "t", "e", "/">>
S_keyFile == <<"i", "d", "_", "r", "s", "a">>
S_hookUrl == <<"/", "h", "o", "o", "k">>
S_secret == <<"s", "3">>
S_github_type == <<"g", "i", "t", "h", "u", "b">>
S_nope == <<"n", "o", "p", "e">>
S_cmd == <<"m", "a", "k", "e">>
S_arg == <<"a", "l", "l">>
S_30 == <<"3", "0">>
S_0 == <<"0">>
S_neg5 == <<"-", "5">>
S_abc == <<"a", "b", "c">>
S_big == <<"9", "2", "2", "3", "3", "7", "2", "0", "3", "7">>
S_huge == <<"9", "9", "9", "9", "9", "9", "9", "9", "9", "9", "9", "9", "9", "9", "9", "9", "9", "9", "9", "9">>
S_ftp == <<"f", "t", "p", ":", "/", "/", "a", "/", "x">>

-----------------------------------------------------------------------------
(* String operations of the Go standard library used by the code. *)

\* strings.HasPrefix
HasPrefix(s, p) == Len(s) >= Len(p) /\ SubSeq(s, 1, Len(p)) = p

\* strings.HasSuffix
HasSuffix(s, p) == Len(s) >= Len(p) /\ SubSeq(s, Len(s) - Len(p) + 1, Len(s)) = p

\* strings.Index(s, c) for a one-character c: 0-based, -1 when absent
Index(s, c) ==
    IF \E i \in 1..Len(s) : s[i] = c
    THEN (CHOOSE i \in 1..Len(s) : s[i] = c /\ \A j \in 1..(i - 1) : s[j] # c) - 1
    ELSE -1

\* strings.LastIndex(s, c) for a one-character c
LastIndex(s, c) ==
    IF \E i \in 1..Len(s) : s[i] = c
    THEN (CHOOSE i \in 1..Len(s) : s[i] = c /\ \A j \in (i + 1)..Len(s) : s[j] # c) - 1
    ELSE -1

\* Go's s[a:b] and s[a:]
Slice(s, a, b) == SubSeq(s, a + 1, b)
SliceFrom(s, a) == SubSeq(s, a + 1, Len(s))

\* strings.TrimSpace
RECURSIVE TrimLeft(_)
TrimLeft(s) == IF s # <<>> /\ Head(s) = " " THEN TrimLeft(Tail(s)) ELSE s
RECURSIVE TrimRight(_)
TrimRight(s) ==
    IF s # <<>> /\ s[Len(s)] = " " THEN TrimRight(SubSeq(s, 1, Len(s) - 1)) ELSE s
TrimSpace(s) == TrimRight(TrimLeft(s))

\* strings.Split(s, c): the segments of s between the occurrences of c
RECURSIVE Split(_, _)
Split(s, c) ==
    LET i == Index(s, c)
    IN IF i < 0 THEN <<s>> ELSE <<Slice(s, 0, i)>> \o Split(SliceFrom(s, i + 1), c)

-----------------------------------------------------------------------------
(* net/url.Parse, as the Go releases this package builds with (1.4 to 1.7) *)
(* compute it, for URLs without '?', '#', '%', '[' and '*'.                *)

Letters == {"a", "b", "c", "d", "e", "f", "g", "h", "i", "j", "k", "l", "m",
            "n", "o", "p", "q", "r", "s", "t", "u", "v", "w", "x", "y", "z"}
SchemeMarks == {"0", "1", "2", "3", "4", "5", "6", "7", "8", "9", "+", "-", "."}

\* url.getscheme: the scheme and the rest, scanning from 0-based position i
RECURSIVE getschemeAt(_, _)
getschemeAt(s, i) ==
    IF i >= Len(s) THEN [scheme |-> <<>>, rest |-> s, err |-> FALSE]
    ELSE LET c == s[i + 1]
         IN CASE c \in Letters -> getschemeAt(s, i + 1)
              [] c \in SchemeMarks ->
                    IF i = 0 THEN [scheme |-> <<>>, rest |-> s, err |-> FALSE]
                    ELSE getschemeAt(s, i + 1)
              [] c = ":" ->
                    IF i = 0 THEN [scheme |-> <<>>, rest |-> <<>>, err |-> TRUE]
                    ELSE [scheme |-> Slice(s, 0, i), rest |-> SliceFrom(s, i + 1),
                          err |-> FALSE]
              [] OTHER -> [scheme |-> <<>>, rest |-> s, err |-> FALSE]

getscheme(s) == getschemeAt(s, 0)

NoUser == [set |-> FALSE, name |-> <<>>]

\* url.parseAuthority: the user (nil or its name) and the host
userOf(userinfo) ==
    [set |-> TRUE,
     name |-> IF Index(userinfo, ":") < 0 THEN userinfo
              ELSE Slice(userinfo, 0, Index(userinfo, ":"))]

parseAuthority(authority) ==
    IF LastIndex(authority, "@") < 0 THEN [user |-> NoUser, host |-> authority]
    ELSE [user |-> userOf(Slice(authority, 0, LastIndex(authority, "@"))),
          host |-> SliceFrom(authority, LastIndex(authority, "@") + 1)]

URLZero == [err |-> FALSE, Scheme |-> <<>>, Opaque |-> <<>>, User |-> NoUser,
            Host |-> <<>>, Path |-> <<>>]

\* the authority and the path of "//authority/path", given what follows the "//"
splitAuthority(scheme, s) ==
    IF Index(s, "/") < 0
    THEN [URLZero EXCEPT !.Scheme = scheme, !.User = parseAuthority(s).user,
                         !.Host = parseAuthority(s).host]
    ELSE [URLZero EXCEPT !.Scheme = scheme,
                         !.User = parseAuthority(Slice(s, 0, Index(s, "/"))).user,
                         !.Host = parseAuthority(Slice(s, 0, Index(s, "/"))).host,
                         !.Path = SliceFrom(s, Index(s, "/"))]

\* url.parse after getscheme
parseRest(g) ==
    IF g.err THEN [URLZero EXCEPT !.err = TRUE]
    ELSE IF ~HasPrefix(g.rest, <<"/">>) /\ g.scheme # <<>>
         THEN [URLZero EXCEPT !.Scheme = g.scheme, !.Opaque = g.rest]
    ELSE IF HasPrefix(g.rest, <<"/", "/">>)
            /\ (g.scheme # <<>> \/ ~HasPrefix(g.rest, <<"/", "/", "/">>))
         THEN splitAuthority(g.scheme, SliceFrom(g.rest, 2))
    ELSE [URLZero EXCEPT !.Scheme = g.scheme, !.Path = g.rest]

\* url.Parse
urlParse(rawurl) == parseRest(getscheme(rawurl))

-----------------------------------------------------------------------------
(* The URL normalizers.  A result is ok (url, host), an error, or a panic  *)
(* (a run-time index or slice bounds failure).                             *)

Ok(u, h) == [st |-> "ok", url |-> u, host |-> h, err |-> "nil"]
Fail(e) == [st |-> "err", url |-> <<>>, host |-> <<>>, err |-> e]
Panic(e) == [st |-> "panic", url |-> <<>>, host |-> <<>>, err |-> e]

\* "add .git suffix if missing"
addGitSuffix(repoURL) ==
    IF ~HasSuffix(repoURL, S_dotGit) THEN repoURL \o S_dotGit ELSE repoURL

\* lines 226-243 of sanitizeHTTP, on the parsed (and possibly rewritten) URL
httpsURL(u) ==
    IF u.User.set
    THEN Ok(addGitSuffix(S_https \o u.User.name \o <<"@">> \o u.Host \o u.Path), u.Host)
    ELSE IF u.Host = S_bitbucket
         THEN IF Len(Split(u.Path, "/")) < 2 THEN Panic("IndexOutOfRange")
              ELSE Ok(addGitSuffix(S_https \o Split(u.Path, "/")[2] \o <<"@">>
                                   \o u.Host \o u.Path),
                      u.Host)
    ELSE Ok(addGitSuffix(S_https \o u.Host \o u.Path), u.Host)

\* lines 216-224 of sanitizeHTTP: the rewrite of an SCP-style URL, p being
\* url.Path without its "git@" prefix
scpToURL(u, p) ==
    IF Index(p, ":") < 0 THEN Fail("InvalidGitURL")
    ELSE httpsURL([u EXCEPT !.Host = Slice(p, 0, Index(p, ":")),
                            !.Path = <<"/">> \o SliceFrom(p, Index(p, ":") + 1)])

sanitizeParsed(u) ==
    IF u.err THEN Fail("URLParseError")
    ELSE IF u.Host = <<>> /\ HasPrefix(u.Path, S_gitAt)
         THEN scpToURL(u, SliceFrom(u.Path, Len(S_gitAt)))
    ELSE httpsURL(u)

sanitizeHTTP(repoURL) == sanitizeParsed(urlParse(repoURL))

\* lines 262-271 of sanitizeGit, on the URL in SSH form
sshURL(repoURL) ==
    Ok(addGitSuffix(repoURL),
       Slice(SliceFrom(repoURL, Len(S_gitAt)), 0,
             Index(SliceFrom(repoURL, Len(S_gitAt)), ":")))

\* lines 256-260 of sanitizeGit: the conversion of an http(s) URL
httpToSSH(u) ==
    IF ~(~u.err /\ HasPrefix(u.Scheme, S_http)) THEN Fail("InvalidGitURL")
    ELSE IF Len(u.Path) < 1 THEN Panic("SliceBoundsOutOfRange")
    ELSE sshURL(S_gitAt \o u.Host \o <<":">> \o SliceFrom(u.Path, 1))

sanitizeTrimmed(repoURL) ==
    IF ~HasPrefix(repoURL, S_gitAt) \/ Index(repoURL, ":") < Len(S_gitAtAColon)
    THEN httpToSSH(urlParse(repoURL))
    ELSE sshURL(repoURL)

sanitizeGit(repoURL) == sanitizeTrimmed(TrimSpace(repoURL))

-----------------------------------------------------------------------------
(* 64-bit integers (Go's int and time.Duration on a 64-bit platform), as 8  *)
(* bytes in two's complement, least significant first, so that the          *)
(* multiplication of line 125 wraps as the machine's does.                 *)

Zero64 == <<0, 0, 0, 0, 0, 0, 0, 0>>
MaxInt64 == <<255, 255, 255, 255, 255, 255, 255, 127>>
MinInt64 == <<0, 0, 0, 0, 0, 0, 0, 128>>

\* a small natural number as an int64
RECURSIVE Int64From(_, _)
Int64From(n, len) == IF len = 0 THEN <<>> ELSE <<n % 256>> \o Int64From(n \div 256, len - 1)
Int64(n) == Int64From(n, 8)

\* v * k + carry over the bytes of v, for small k and carry: the bytes of the
\* product followed by the carry out of the last byte
RECURSIVE mulSmall(_, _, _)
mulSmall(v, k, carry) ==
    IF v = <<>> THEN <<carry>>
    ELSE <<(Head(v) * k + carry) % 256>>
         \o mulSmall(Tail(v), k, (Head(v) * k + carry) \div 256)

\* two's complement negation
RECURSIVE invert(_)
invert(v) == IF v = <<>> THEN <<>> ELSE <<255 - Head(v)>> \o invert(Tail(v))
Neg64(v) == SubSeq(mulSmall(invert(v), 1, 1), 1, 8)

\* the sum of a[i] * b[k + 1 - i] for i in 1..n
RECURSIVE colSum(_, _, _, _)
colSum(a, b, k, n) == IF n = 0 THEN 0 ELSE a[n] * b[k + 1 - n] + colSum(a, b, k, n - 1)

\* the bytes k..8 of a * b, given the carry into byte k
RECURSIVE mulFrom(_, _, _, _)
mulFrom(a, b, k, carry) ==
    IF k > 8 THEN <<>>
    ELSE <<(colSum(a, b, k, k) + carry) % 256>>
         \o mulFrom(a, b, k + 1, (colSum(a, b, k, k) + carry) \div 256)

\* a * b in int64 arithmetic (the product modulo 2^64)
Mul64(a, b) == mulFrom(a, b, 1, 0)

\* x > 0 for an int64
Positive64(x) == x[8] < 128 /\ x # Zero64

\* time.Second and time.Hour, in nanoseconds
Second == <<0, 202, 154, 59, 0, 0, 0, 0>>
Hour == Mul64(Int64(3600), Second)
DefaultInterval == Mul64(Hour, Int64(1))

Digits == <<"0", "1", "2", "3", "4", "5", "6", "7", "8", "9">>
IsDigit(c) == \E d \in 1..10 : Digits[d] = c
DigitVal(c) == (CHOOSE d \in 1..10 : Digits[d] = c) - 1

\* strconv.ParseUint(s, 10, 64) on a string of digits: the 8 bytes of the
\* value followed by a ninth that is not 0 when the value passed 2^64
RECURSIVE parseUint(_, _)
parseUint(s, acc) ==
    IF s = <<>> THEN acc
    ELSE parseUint(Tail(s),
                   SubSeq(mulSmall(SubSeq(acc, 1, 8), 10, DigitVal(Head(s))), 1, 8)
                   \o <<IF acc[9] # 0
                           \/ mulSmall(SubSeq(acc, 1, 8), 10, DigitVal(Head(s)))[9] # 0
                        THEN 1 ELSE 0>>)

\* strconv.ParseInt on the sign and the parsed digits: the nearest int64
parseInt(neg, un) ==
    IF ~neg /\ (un[9] # 0 \/ un[8] >= 128) THEN MaxInt64
    ELSE IF neg /\ (un[9] # 0 \/ (un[8] >= 128 /\ SubSeq(un, 1, 8) # MinInt64))
         THEN MinInt64
    ELSE IF neg THEN Neg64(SubSeq(un, 1, 8))
    ELSE SubSeq(un, 1, 8)

\* the digits of a numeral after its sign
unsigned(s) == IF s # <<>> /\ Head(s) \in {"+", "-"} THEN Tail(s) ELSE s

\* strconv.Atoi: the int returned (the error is dropped by the caller); 0 on a
\* syntax error, the nearest int64 on a range error
Atoi(s) ==
    IF unsigned(s) = <<>> \/ \E i \in 1..Len(unsigned(s)) : ~IsDigit(unsigned(s)[i])
    THEN Zero64
    ELSE parseInt(Head(s) = "-", parseUint(unsigned(s), Zero64 \o <<0>>))

-----------------------------------------------------------------------------
(* Repository descriptors and the directive parser.                        *)

NoErr == [kind |-> "nil", at |-> 0]
\* an error value and the line of the return statement that produced it
Error(kind, line) == [kind |-> kind, at |-> line]
\* c.ArgErr()
ArgErr(line) == Error("ArgErr", line)

\* the registered webhook payload formats (the `handlers` map)
handlers == {S_github_type}

\* c.Root
Root == S_root

\* filepath.Clean on a rooted path without "." and ".." elements: repeated
\* separators collapse and a trailing separator is dropped
RECURSIVE collapse(_)
collapse(p) ==
    IF Len(p) < 2 THEN p
    ELSE IF p[1] = "/" /\ p[2] = "/" THEN collapse(Tail(p))
    ELSE <<Head(p)>> \o collapse(Tail(p))
Clean(p) ==
    LET q == collapse(p)
    IN IF Len(q) > 1 /\ q[Len(q)] = "/" THEN SubSeq(q, 1, Len(q) - 1) ELSE q

NoHook == [Url |-> <<>>, Secret |-> <<>>, Type |-> <<>>]

\* &Repo{Branch: "master", Interval: DefaultInterval, Path: c.Root}
NewRepo == [URL |-> <<>>, Host |-> <<>>, Path |-> Root, Branch |-> S_master,
            KeyPath |-> <<>>, Interval |-> DefaultInterval, Hook |-> NoHook,
            Then |-> <<>>]

\* the positional arguments of the directive (switch len(args))
applyArgs(repo, args) ==
    IF Len(args) = 2
    THEN [repo EXCEPT !.Path = Clean(Root \o <<"/">> \o args[2]), !.URL = args[1]]
    ELSE IF Len(args) = 1 THEN [repo EXCEPT !.URL = args[1]]
    ELSE repo

\* lines 124-126: if t > 0 { repo.Interval = time.Duration(t) * time.Second }
setInterval(repo, t) ==
    IF Positive64(t) THEN [repo EXCEPT !.Interval = Mul64(t, Second)] ELSE repo

\* the `interval` sub-directive
applyInterval(repo, val) == setInterval(repo, Atoi(val))

Parsed(repo) == [repo |-> repo, err |-> NoErr]
Failed(repo, e) == [repo |-> repo, err |-> e]

\* the error returned for a label the switch does not know (default:)
unknownLabel(repo) == Failed(repo, ArgErr(161))

\* The body of `for c.NextBlock()` over the tokens of one line: the first is
\* the label, NextArg takes the values that follow on the line, and a token
\* left over on the line is the next label NextBlock reads.
RECURSIVE parseLine(_, _)
parseLine(repo, line) ==
    IF line = <<>> THEN Parsed(repo)
    ELSE LET label == Head(line)
             rest == Tail(line)
         IN CASE label = S_repo ->
                   IF rest = <<>> THEN Failed(repo, ArgErr(101))
                   ELSE parseLine([repo EXCEPT !.URL = Head(rest)], Tail(rest))
              [] label = S_path ->
                   IF rest = <<>> THEN Failed(repo, ArgErr(106))
                   ELSE parseLine([repo EXCEPT !.Path = Clean(Root \o <<"/">> \o Head(rest))],
                                  Tail(rest))
              [] label = S_branch ->
                   IF rest = <<>> THEN Failed(repo, ArgErr(111))
                   ELSE parseLine([repo EXCEPT !.Branch = Head(rest)], Tail(rest))
              [] label = S_key ->
                   IF rest = <<>> THEN Failed(repo, ArgErr(116))
                   ELSE parseLine([repo EXCEPT !.KeyPath = Head(rest)], Tail(rest))
              [] label = S_interval ->
                   IF rest = <<>> THEN Failed(repo, ArgErr(121))
                   ELSE parseLine(applyInterval(repo, Head(rest)), Tail(rest))
              [] label = S_hook ->
                   IF rest = <<>> THEN Failed(repo, ArgErr(129))
                   ELSE IF Len(rest) >= 2
                        THEN parseLine([repo EXCEPT !.Hook.Url = rest[1],
                                                    !.Hook.Secret = rest[2]],
                                       SubSeq(rest, 3, Len(rest)))
                        ELSE parseLine([repo EXCEPT !.Hook.Url = rest[1]], <<>>)
              [] label = S_hook_type ->
                   IF rest = <<>> THEN Failed(repo, ArgErr(139))
                   ELSE IF Head(rest) \notin handlers
                        THEN Failed(repo, Error("InvalidHookType", 143))
                        ELSE parseLine([repo EXCEPT !.Hook.Type = Head(rest)], Tail(rest))
              [] label = S_then ->
                   IF rest = <<>> THEN Failed(repo, ArgErr(148))
                   ELSE Parsed([repo EXCEPT !.Then =
                           Append(@, [long |-> FALSE, command |-> Head(rest),
                                      args |-> Tail(rest)])])
              [] label = S_then_long ->
                   IF rest = <<>> THEN Failed(repo, ArgErr(155))
                   ELSE Parsed([repo EXCEPT !.Then =
                           Append(@, [long |-> TRUE, command |-> Head(rest),
                                      args |-> Tail(rest)])])
              [] OTHER -> unknownLabel(repo)

\* the loop `for c.NextBlock()` over the lines of the block: the first error returns
RECURSIVE parseLines(_, _)
parseLines(r, lines) ==
    IF r.err # NoErr \/ lines = <<>> THEN r
    ELSE parseLines(parseLine(r.repo, Head(lines)), Tail(lines))

\* lines 174-187: the outcome of the normalizer s for the descriptor
normalized(repo, s, os) ==
    IF s.st = "panic" THEN [st |-> "panic", repo |-> repo, err |-> Error(s.err, 0)]
    ELSE IF repo.KeyPath # <<>> /\ os = "windows"
         THEN [st |-> "err", repo |-> repo, err |-> Error("Windows", 181)]
    ELSE IF s.st = "err" THEN [st |-> "err", repo |-> repo, err |-> Error(s.err, 186)]
    ELSE [st |-> "ok", repo |-> [repo EXCEPT !.URL = s.url, !.Host = s.host],
          err |-> NoErr]

\* lines 165-187, on the result r of the sub-directives
checkURL(r, os) ==
    IF r.err # NoErr THEN [st |-> "err", repo |-> r.repo, err |-> r.err]
    ELSE IF r.repo.URL = <<>> THEN [st |-> "err", repo |-> r.repo, err |-> ArgErr(167)]
    ELSE normalized(r.repo,
                    IF r.repo.KeyPath = <<>> THEN sanitizeHTTP(r.repo.URL)
                    ELSE sanitizeGit(r.repo.URL),
                    os)

\* One iteration of `for c.Next()` up to the call of Init (lines 85 to 187):
\* "ok" with the descriptor, "err" with the error parse returns, or "panic".
parseBlock(block, os) ==
    checkURL(parseLines(Parsed(applyArgs(NewRepo, block.args)), block.lines), os)

-----------------------------------------------------------------------------
(* The configurations explored: raw repository URLs and directive blocks.  *)

U_https == S_https \o S_github \o <<"/">> \o S_acctRepo
U_scp == S_gitAt \o S_github \o <<":">> \o S_acctRepo
U_scpBitbucket == S_gitAt \o S_bitbucket \o <<":">> \o S_acctRepo
U_bitbucketNoPath == S_https \o S_bitbucket
U_httpNoPath == S_httpScheme \o S_github
U_bare == S_github \o <<"/">> \o S_acctRepo

\* a directive block: the positional arguments and the lines inside { }
Blk(args, lines) == [args |-> args, lines |-> lines]

B_poll == Blk(<<U_https>>, <<>>)
B_hook == Blk(<<U_https, S_siteSlash>>,
              << <<S_hook, S_hookUrl, S_secret>>, <<S_interval, S_30>> >>)
B_ssh == Blk(<<U_scp>>, << <<S_key, S_keyFile>> >>)
B_bogus == Blk(<<U_https>>, << <<S_bogus, S_arg>> >>)
B_bitbucketNoPath == Blk(<<U_bitbucketNoPath>>, <<>>)
B_sshNoPath == Blk(<<U_httpNoPath>>, << <<S_key, S_keyFile>> >>)
B_bare == Blk(<<U_bare>>, <<>>)
B_noArg == Blk(<<U_https>>, << <<S_branch>> >>)
B_noURL == Blk(<<>>, << <<S_branch, S_dev>> >>)
B_intervals == Blk(<<U_https>>,
                   << <<S_interval, S_30>>, <<S_interval, S_0>>, <<S_interval, S_neg5>>,
                      <<S_interval, S_abc>> >>)
B_overflow == Blk(<<U_https>>, << <<S_interval, S_big>> >>)
B_range == Blk(<<U_https>>, << <<S_interval, S_30>>, <<S_interval, S_huge>> >>)
B_badType == Blk(<<U_https>>, << <<S_hook, S_hookUrl>>, <<S_hook_type, S_nope>> >>)
B_full == Blk(<<>>,
              << <<S_repo, U_scpBitbucket>>, <<S_path, S_site>>, <<S_hook, S_hookUrl>>,
                 <<S_hook_type, S_github_type>>, <<S_then, S_cmd, S_arg>>,
                 <<S_then_long, S_cmd>> >>)
B_ftp == Blk(<<S_ftp>>, << <<S_key, S_keyFile>> >>)

\* the blocks of the server blocks shared by several contexts
SetupBlocks == {B_poll, B_hook, B_ssh, B_bogus, B_bitbucketNoPath}

\* the blocks of the single-context configurations
ParseBlocks == {B_poll, B_hook, B_ssh, B_bogus, B_bitbucketNoPath, B_sshNoPath, B_bare,
                B_noArg, B_noURL, B_intervals, B_overflow, B_range, B_badType, B_full,
                B_ftp}

Configs(templates) == UNION {[1..n -> templates] : n \in 1..MaxBlocks}

-----------------------------------------------------------------------------
(* Setup.  A descriptor object is named by the context whose parse         *)
(* allocated it and its position in that parse's result: <<c, i>>.         *)

Ctxs == 1..nctx
Refs == Ctxs \X (1..Len(blocks))
Deref(r) == git[r[1]][r[2]]

\* a panic in any evaluation ends the process
Alive == \A c \in Ctxs : pc[c] # "panicked"

\* a faulty variant: parse returns the descriptors built so far along with the error
gitOnError_Partial(g) == g

\* what parse returns for its Git slice with an error: `return nil, err`
gitOnError(g) == <<>>

\* a faulty variant: a configured interval wins over the hook
UsesHook_UnlessInterval(repo) ==
    repo.Hook.Url # <<>> /\ repo.Interval = DefaultInterval

\* "If a HookUrl is set, we switch to event based pulling."
UsesHook(repo) == repo.Hook.Url # <<>>

\* the startup closure built for descriptor object r
startupFunc(repo, r) == [kind |-> IF UsesHook(repo) THEN "hook" ELSE "poll", repo |-> r]

\* number of Start calls one run of a startup closure makes
startsOf(f) == IF f.kind = "poll" THEN 1 ELSE 0

\* a faulty variant: the registration is not guarded
OncePerServerBlock_Unguarded(done, startup, funcs) == startup \o funcs

\* c.OncePerServerBlock(func() { c.Startup = append(c.Startup, startupFuncs...) })
OncePerServerBlock(done, startup, funcs) == IF done THEN startup ELSE startup \o funcs

NoHandler == [installed |-> FALSE, Repos |-> <<>>]

\* the startup list of the host: the c.Startup of every context of the block
HostStartup ==
    LET RECURSIVE upTo(_)
        upTo(c) == IF c = 0 THEN <<>> ELSE upTo(c - 1) \o cStartup[c]
    IN upTo(nctx)

\* One iteration of parse's `for c.Next()` loop in the Setup of context c.
ParseBlock(c) ==
    /\ Alive /\ pc[c] = "parse" /\ idx[c] < Len(blocks)
    /\ \E i \in {idx[c] + 1}, r \in {parseBlock(blocks[idx[c] + 1], goos)} :
          /\ idx' = [idx EXCEPT ![c] = i]
          /\ \/ /\ r.st = "panic"
                /\ pc' = [pc EXCEPT ![c] = "panicked"]
                /\ UNCHANGED <<git, err, initCalls, prepared>>
             \/ /\ r.st = "err"
                /\ pc' = [pc EXCEPT ![c] = "failed"]
                /\ err' = [err EXCEPT ![c] = r.err]
                /\ git' = [git EXCEPT ![c] = gitOnError(@)]
                /\ UNCHANGED <<initCalls, prepared>>
             \/ /\ r.st = "ok"
                /\ initCalls' = initCalls + 1
                /\ \/ \* Init() fails
                      /\ pc' = [pc EXCEPT ![c] = "failed"]
                      /\ err' = [err EXCEPT ![c] = Error("InitError", 191)]
                      /\ git' = [git EXCEPT ![c] = gitOnError(@)]
                      /\ UNCHANGED prepared
                   \/ \* repo.Prepare() fails
                      /\ pc' = [pc EXCEPT ![c] = "failed"]
                      /\ err' = [err EXCEPT ![c] = Error("PrepareError", 196)]
                      /\ git' = [git EXCEPT ![c] = gitOnError(@)]
                      /\ prepared' = prepared \cup {<<c, i>>}
                   \/ \* git = append(git, repo)
                      /\ git' = [git EXCEPT ![c] = Append(@, r.repo)]
                      /\ prepared' = prepared \cup {<<c, i>>}
                      /\ UNCHANGED <<pc, err>>
    /\ UNCHANGED <<blocks, goos, nctx, startupFuncs, hookRepos, onceDone, cStartup,
                   handler, ran, aborted, pullCount, startCount>>
    /\ UNCHANGED normVars

\* parse returns without error; Setup builds hookRepos and startupFuncs (lines 29-59)
Plan(c) ==
    /\ Alive /\ pc[c] = "parse" /\ idx[c] = Len(blocks)
    /\ LET refs == [i \in 1..Len(git[c]) |-> <<c, i>>]
       IN /\ hookRepos' = [hookRepos EXCEPT
                              ![c] = SelectSeq(refs, LAMBDA r : UsesHook(Deref(r)))]
          /\ startupFuncs' = [startupFuncs EXCEPT
                                 ![c] = [i \in 1..Len(git[c]) |->
                                            startupFunc(git[c][i], refs[i])]]
    /\ pc' = [pc EXCEPT ![c] = "planned"]
    /\ UNCHANGED <<blocks, goos, nctx, idx, git, err, onceDone, cStartup, handler,
                   initCalls, prepared, ran, aborted, pullCount, startCount>>
    /\ UNCHANGED normVars

\* Setup registers the startup functions and returns the handler (lines 61-78)
Register(c) ==
    /\ Alive /\ pc[c] = "planned"
    /\ cStartup' = [cStartup EXCEPT
                       ![c] = OncePerServerBlock(onceDone, @, startupFuncs[c])]
    /\ onceDone' = TRUE
    /\ handler' = [handler EXCEPT
                      ![c] = IF Len(hookRepos[c]) > 0
                             THEN [installed |-> TRUE, Repos |-> hookRepos[c]]
                             ELSE NoHandler]
    /\ pc' = [pc EXCEPT ![c] = "done"]
    /\ UNCHANGED <<blocks, goos, nctx, idx, git, err, startupFuncs, hookRepos,
                   initCalls, prepared, ran, aborted, pullCount, startCount>>
    /\ UNCHANGED normVars

\* The host, once every Setup has returned without error, runs the next
\* registered startup function; an error from Pull stops the startup.
RunStartup ==
    /\ \A c \in Ctxs : pc[c] = "done"
    /\ ~aborted /\ ran < Len(HostStartup)
    /\ LET f == HostStartup[ran + 1]
       IN /\ startCount' = [startCount EXCEPT ![f.repo] = @ + startsOf(f)]
          /\ pullCount' = [pullCount EXCEPT ![f.repo] = @ + 1]
    /\ ran' = ran + 1
    /\ \E pullErr \in BOOLEAN : aborted' = pullErr
    /\ UNCHANGED <<blocks, goos, nctx, pc, idx, git, err, startupFuncs, hookRepos,
                   onceDone, cStartup, handler, initCalls, prepared>>
    /\ UNCHANGED normVars

NormIdle ==
    /\ nparts = [form |-> "none", user |-> <<>>, host |-> <<>>, path |-> <<>>]
    /\ nmode = "none" /\ npc = "idle"
    /\ nout1 = Fail("none") /\ nout2 = Fail("none")

InitSetup(templates, contexts, platforms) ==
    /\ blocks \in Configs(templates)
    /\ goos \in platforms
    /\ nctx \in contexts
    /\ pc = [c \in Ctxs |-> "parse"]
    /\ idx = [c \in Ctxs |-> 0]
    /\ git = [c \in Ctxs |-> <<>>]
    /\ err = [c \in Ctxs |-> NoErr]
    /\ startupFuncs = [c \in Ctxs |-> <<>>]
    /\ hookRepos = [c \in Ctxs |-> <<>>]
    /\ onceDone = FALSE
    /\ cStartup = [c \in Ctxs |-> <<>>]
    /\ handler = [c \in Ctxs |-> NoHandler]
    /\ initCalls = 0
    /\ prepared = {}
    /\ ran = 0
    /\ aborted = FALSE
    /\ pullCount = [r \in Refs |-> 0]
    /\ startCount = [r \in Refs |-> 0]
    /\ NormIdle

\* a server block shared by 1..MaxCtx contexts
Init == InitSetup(SetupBlocks, 1..MaxCtx, {"linux", "windows"})

\* a configuration evaluated for one context, over every kind of block
InitParse == InitSetup(ParseBlocks, {1}, {"linux", "windows"})

Next ==
    \/ \E c \in Ctxs : ParseBlock(c)
    \/ \E c \in Ctxs : Plan(c)
    \/ \E c \in Ctxs : Register(c)
    \/ RunStartup

Spec == Init /\ [][Next]_vars
SpecParse == InitParse /\ [][Next]_vars

-----------------------------------------------------------------------------
(* The normalizers on their own: a raw URL is drawn, normalized, and the   *)
(* normalizer is applied again to its own output.                          *)

NormHosts == {S_github, S_bitbucket, S_hostA}
NormPaths == {<<>>, S_acctRepo, S_acctRepoGit}
NormOthers == {S_ftp, S_gitAt \o S_github \o <<"/">> \o S_acctRepo,
               <<" ">> \o U_scp \o <<" ">>, <<":">> \o S_acct}

\* the raw URLs: https://[user@]host[/path], http://[user@]host[/path],
\* git@host:path, host/path, and a few of no such form
NormInputs ==
    {p \in [form : {"https", "http", "scp", "bare"}, user : {<<>>, S_user},
            host : NormHosts, path : NormPaths] :
        p.form \in {"scp", "bare"} => p.user = <<>>}
    \cup {[form |-> "other", user |-> <<>>, host |-> <<>>, path |-> u] : u \in NormOthers}

\* "/path", or nothing for no path
Rooted(path) == IF path = <<>> THEN <<>> ELSE <<"/">> \o path
\* "user@", or nothing for no user
UserAt(user) == IF user = <<>> THEN <<>> ELSE user \o <<"@">>

Assemble(p) ==
    CASE p.form = "https" -> S_https \o UserAt(p.user) \o p.host \o Rooted(p.path)
      [] p.form = "http" -> S_httpScheme \o UserAt(p.user) \o p.host \o Rooted(p.path)
      [] p.form = "scp" -> S_gitAt \o p.host \o <<":">> \o p.path
      [] p.form = "bare" -> p.host \o <<"/">> \o p.path
      [] OTHER -> p.path

Sanitize(mode, u) == IF mode = "http" THEN sanitizeHTTP(u) ELSE sanitizeGit(u)

Normalize ==
    /\ npc = "raw"
    /\ nout1' = Sanitize(nmode, Assemble(nparts))
    /\ npc' = "once"
    /\ UNCHANGED <<nparts, nmode, nout2>>
    /\ UNCHANGED mainVars

Renormalize ==
    /\ npc = "once" /\ nout1.st = "ok"
    /\ nout2' = Sanitize(nmode, nout1.url)
    /\ npc' = "twice"
    /\ UNCHANGED <<nparts, nmode, nout1>>
    /\ UNCHANGED mainVars

\* a URL with white space is given to sanitizeGit only (url.Parse is modelled
\* for URLs without white space)
InitNorm ==
    /\ nparts \in NormInputs
    /\ nmode \in {"http", "git"}
    /\ (\E i \in 1..Len(nparts.path) : nparts.path[i] = " ") => nmode = "git"
    /\ npc = "raw"
    /\ nout1 = Fail("none") /\ nout2 = Fail("none")
    /\ blocks = <<>> /\ goos = "linux" /\ nctx = 0
    /\ pc = <<>> /\ idx = <<>> /\ git = <<>> /\ err = <<>>
    /\ startupFuncs = <<>> /\ hookRepos = <<>> /\ onceDone = FALSE
    /\ cStartup = <<>> /\ handler = <<>>
    /\ initCalls = 0 /\ prepared = {} /\ ran = 0 /\ aborted = FALSE
    /\ pullCount = <<>> /\ startCount = <<>>

NextNorm == Normalize \/ Renormalize

SpecNorm == InitNorm /\ [][NextNorm]_vars

-----------------------------------------------------------------------------
(* Properties.                                                             *)

Range(s) == {s[i] : i \in 1..Len(s)}
AllDone == \A c \in Ctxs : pc[c] = "done"

\* C1: however many contexts evaluate Setup for one server block, and in whatever
\* order their steps interleave, the host's startup list is either still empty or
\* holds exactly one startup action per repository of the block (never a part of
\* them, never a multiple), and it holds them once any Setup has returned.
C1_RegisteredOncePerBlock ==
    /\ Len(HostStartup) \in {0, Len(blocks)}
    /\ (\E c \in Ctxs : pc[c] = "done") =>
          /\ Len(HostStartup) = Len(blocks)
          /\ \A i \in 1..Len(blocks) :
                Cardinality({j \in 1..Len(HostStartup) : HostStartup[j].repo[2] = i}) = 1

C1_Witness ==
    /\ nctx >= 2 /\ AllDone
    /\ Len(blocks) >= 2 /\ Len(HostStartup) = Len(blocks)

\* C2: every parsed descriptor has exactly one startup action bound to it and one
\* sync trigger. With a hook url (whatever the interval) the descriptor is in the
\* handler's list and running its action makes one Pull and no Start; without one
\* it is in no handler's list and running its action makes one Start and one Pull.
\* Setup returns a handler exactly when some descriptor has a hook url.
C2_OneTriggerPerDescriptor ==
    /\ \A c \in Ctxs : pc[c] \in {"planned", "done"} =>
          /\ Len(startupFuncs[c]) = Len(git[c])
          /\ \A i \in 1..Len(git[c]) :
                /\ startupFuncs[c][i].repo = <<c, i>>
                /\ Cardinality({k \in 1..Len(hookRepos[c]) : hookRepos[c][k] = <<c, i>>})
                      = IF git[c][i].Hook.Url # <<>> THEN 1 ELSE 0
    /\ \A c \in Ctxs : pc[c] = "done" =>
          /\ handler[c].installed <=> \E i \in 1..Len(git[c]) : git[c][i].Hook.Url # <<>>
          /\ handler[c].Repos = hookRepos[c]
    /\ \A j \in 1..Len(HostStartup) :
          LET r == HostStartup[j].repo
          IN /\ pullCount[r] = IF j <= ran THEN 1 ELSE 0
             /\ startCount[r] = IF j <= ran /\ Deref(r).Hook.Url = <<>> THEN 1 ELSE 0
    /\ \A r \in Refs : (\A j \in 1..Len(HostStartup) : HostStartup[j].repo # r) =>
          pullCount[r] = 0 /\ startCount[r] = 0

\* a descriptor with `hook` and `interval 30` whose startup action has run, and a
\* polled descriptor whose startup action has run
C2_Witness ==
    /\ \E j \in 1..Len(HostStartup) :
          /\ j <= ran
          /\ Deref(HostStartup[j].repo).Hook.Url # <<>>
          /\ Deref(HostStartup[j].repo).Interval = Mul64(Int64(30), Second)
          /\ pullCount[HostStartup[j].repo] = 1
          /\ startCount[HostStartup[j].repo] = 0
    /\ \E j \in 1..Len(HostStartup) :
          /\ j <= ran
          /\ Deref(HostStartup[j].repo).Hook.Url = <<>>
          /\ startCount[HostStartup[j].repo] = 1
    /\ \E c \in Ctxs : handler[c].installed

\* C3: when parse fails at a block, the first or a later one, Setup returns the
\* error with no descriptors, registers no startup action, returns no handler, and
\* no Pull and no Start is made for any repository of the configuration.
C3_NoPartialActivation ==
    \A c \in Ctxs : pc[c] = "failed" =>
        /\ err[c] # NoErr
        /\ git[c] = <<>>
        /\ startupFuncs[c] = <<>> /\ hookRepos[c] = <<>>
        /\ cStartup[c] = <<>>
        /\ handler[c] = NoHandler
        /\ ran = 0
        /\ \A r \in Refs : pullCount[r] = 0 /\ startCount[r] = 0

\* a failure at the second block, after the first was parsed and prepared
C3_Witness ==
    \E c \in Ctxs : pc[c] = "failed" /\ idx[c] = 2 /\ <<c, 1>> \in prepared

\* the host name that appears in a normalized URL
HostInURL(u) ==
    IF HasPrefix(u, S_gitAt)
    THEN Slice(SliceFrom(u, Len(S_gitAt)), 0, Index(SliceFrom(u, Len(S_gitAt)), ":"))
    ELSE urlParse(u).Host

WellFormed(repo) ==
    /\ repo.URL # <<>>
    /\ HasSuffix(repo.URL, S_dotGit)
    /\ repo.KeyPath # <<>> <=>
          HasPrefix(repo.URL, S_gitAt) /\ Index(repo.URL, ":") >= Len(S_gitAt)
    /\ repo.KeyPath = <<>> <=> HasPrefix(repo.URL, S_https)
    /\ repo.Host = HostInURL(repo.URL)

\* C4: parsing a block ends in an error, never a crash, or in a descriptor whose
\* url is non-empty, ends with .git, is in SSH form exactly when a key is set and
\* in https:// form exactly when none is, and whose host is the host of the url.
C4_ErrorOrWellFormed ==
    \A c \in Ctxs :
        /\ pc[c] # "panicked"
        /\ \A i \in 1..Len(git[c]) : WellFormed(git[c][i])

\* C5: the interval of every parsed descriptor is strictly positive (an `interval`
\* value that is not a positive integer leaves it as it was, a positive t sets it
\* to t seconds).
C5_IntervalPositive ==
    \A c \in Ctxs : \A i \in 1..Len(git[c]) : Positive64(git[c][i].Interval)

\* the first segment of a path
FirstSegment(path) == Split(path, "/")[1]

\* C6: for a URL of host bitbucket.org without user-info, in https form or in
\* git@host:path form, sanitizeHTTP returns https://<first segment>@bitbucket.org
\* <path>.git and the host; a URL with user-info keeps that user; for any other
\* host no user is put in the URL.
C6_BitbucketUser ==
    (npc # "raw" /\ nmode = "http" /\ nparts.form \in {"https", "http", "scp"}) =>
        LET path == IF nparts.form = "scp" THEN <<"/">> \o nparts.path
                    ELSE Rooted(nparts.path)
            user == IF nparts.user # <<>> THEN nparts.user \o <<"@">>
                    ELSE IF nparts.host = S_bitbucket
                         THEN FirstSegment(nparts.path) \o <<"@">>
                    ELSE <<>>
            url == S_https \o user \o nparts.host \o path
        IN nout1 = Ok(IF HasSuffix(url, S_dotGit) THEN url ELSE url \o S_dotGit,
                      nparts.host)

\* C7: each normalizer is idempotent: applied to its own output it succeeds and
\* returns the same url and host.
C7_Idempotent == npc = "twice" => nout2 = nout1

KnownLabels == {S_repo, S_path, S_branch, S_key, S_interval, S_hook, S_hook_type,
                S_then, S_then_long}

\* the first line of the block starts with a label the parser does not know
UnknownFirst(block) ==
    /\ block.lines # <<>>
    /\ Head(block.lines) # <<>>
    /\ Head(Head(block.lines)) \notin KnownLabels

\* the error kinds returned for a label without its value and for a block
\* without a URL
MissingArgumentKind == ArgErr(101).kind
MissingRepositoryURLKind == ArgErr(167).kind

\* C8: an unknown label aborts the parse with an error of a kind of
\* its own, distinct from the kinds of a missing argument and of a missing URL,
\* and no descriptor is produced.
C8_InvalidDirectiveKind ==
    \A c \in Ctxs : (idx[c] >= 1 /\ UnknownFirst(blocks[idx[c]])) =>
        /\ pc[c] = "failed"
        /\ err[c].kind \notin {MissingArgumentKind, MissingRepositoryURLKind}
        /\ git[c] = <<>>

\* the block sets `key`
KeySet(block) ==
    \E k \in 1..Len(block.lines) :
        Len(block.lines[k]) >= 2 /\ block.lines[k][1] = S_key

\* C9: on Windows a block that sets `key` fails with the unsupported-platform
\* error whatever its URL, at whatever position it stands, and when the error is
\* returned no Init and no Prepare call has been made.
C9_WindowsKeyFailsFirst ==
    goos = "windows" =>
        \A c \in Ctxs : (idx[c] >= 1 /\ KeySet(blocks[idx[c]])) =>
            /\ pc[c] = "failed"
            /\ err[c].kind = "Windows"
            /\ initCalls = 0
            /\ prepared = {}

\* C10: once Setup has been evaluated for every context of the block, every
\* webhook handler holds only descriptor objects that the registered startup
\* actions pull.
C10_HandlersShareDescriptors ==
    AllDone =>
        \A c \in Ctxs : \A k \in 1..Len(handler[c].Repos) :
            \E j \in 1..Len(HostStartup) : HostStartup[j].repo = handler[c].Repos[k]


=============================================================================
